---------------------------- MODULE Spec2Model ----------------------------
(***************************************************************************)
(* grim-wrapper (src/src/index.ts, the module that starts at line 75):     *)
(* wrapComment and the functions it is built from.                         *)
(*                                                                         *)
(* A JavaScript string is a sequence of one-character strings, so          *)
(* "// a" is <<"/", "/", " ", "a">>; an array of strings is a sequence of  *)
(* such sequences.  Indices are 1-based here and 0-based in the source.    *)
(***************************************************************************)
EXTENDS Integers, Sequences, FiniteSets

(***************************************************************************)
(* Character classes of the regular expressions.                           *)
(***************************************************************************)
\* \s of the regular expressions, which is also what trim() and trimEnd()
\* remove: space, \t, \n, \v, \f, \r, U+00A0, U+FEFF and U+1680.  The
\* remaining members of \s (U+2000 to U+200A, U+2028, U+2029, U+202F, U+205F,
\* U+3000) are rejected in a string of this language, so no text can hold
\* them.
WhiteSpace == {" ", "\t", "\n", "", "\f", "\r", " ", "﻿", " "}

\* [A-Z]
UpperCase ==
  {"A", "B", "C", "D", "E", "F", "G", "H", "I", "J", "K", "L", "M",
   "N", "O", "P", "Q", "R", "S", "T", "U", "V", "W", "X", "Y", "Z"}

LowerCase ==
  {"a", "b", "c", "d", "e", "f", "g", "h", "i", "j", "k", "l", "m",
   "n", "o", "p", "q", "r", "s", "t", "u", "v", "w", "x", "y", "z"}

\* \d
Digit == {"0", "1", "2", "3", "4", "5", "6", "7", "8", "9"}

\* \w
WordChar == UpperCase \cup LowerCase \cup Digit \cup {"_"}

(***************************************************************************)
(* String and array primitives of JavaScript.                              *)
(***************************************************************************)
\* s.slice(n): s without its first n characters
Drop(s, n) == SubSeq(s, n + 1, Len(s))

\* s.slice(0, n)
Take(s, n) == SubSeq(s, 1, n)

\* s.startsWith(t, i - 1)
StartsWithAt(s, i, t) ==
  /\ i + Len(t) - 1 <= Len(s)
  /\ SubSeq(s, i, i + Len(t) - 1) = t

\* the number of consecutive characters of class cls in s from position i on
RECURSIVE RunLength(_, _, _)
RunLength(s, i, cls) ==
  IF i <= Len(s) /\ s[i] \in cls THEN 1 + RunLength(s, i + 1, cls) ELSE 0

\* the number of white-space characters that end s
RECURSIVE TrailingSpace(_)
TrailingSpace(s) ==
  IF Len(s) > 0 /\ s[Len(s)] \in WhiteSpace
  THEN 1 + TrailingSpace(Take(s, Len(s) - 1))
  ELSE 0

\* s.trimEnd()
trimEnd(s) == Take(s, Len(s) - TrailingSpace(s))

\* s.trimStart()
trimStart(s) == Drop(s, RunLength(s, 1, WhiteSpace))

\* s.trim()
trim(s) == trimStart(trimEnd(s))

\* c.repeat(n) for n >= 0; a negative n raises RangeError in the source, which
\* the callers model with their ...Throws predicates
RECURSIVE Repeat(_, _)
Repeat(c, n) == IF n <= 0 THEN <<>> ELSE <<c>> \o Repeat(c, n - 1)

\* array.includes(x)
Includes(array, x) == \E i \in 1..Len(array) : array[i] = x

\* array.join(sep)
RECURSIVE Join(_, _)
Join(array, sep) ==
  IF Len(array) = 0 THEN <<>>
  ELSE IF Len(array) = 1 THEN array[1]
  ELSE array[1] \o sep \o Join(Tail(array), sep)

\* the index of the first character of class cls at or after position i,
\* Len(s) + 1 when there is none
RECURSIVE FirstOf(_, _, _)
FirstOf(s, i, cls) ==
  IF i > Len(s) \/ s[i] \in cls THEN i ELSE FirstOf(s, i + 1, cls)

\* s.indexOf(t) + 1 searched from position i on: the first position at or
\* after i where t occurs in s, 0 when it does not
RECURSIVE IndexOfFrom(_, _, _)
IndexOfFrom(s, t, i) ==
  IF i + Len(t) - 1 > Len(s) THEN 0
  ELSE IF StartsWithAt(s, i, t) THEN i
  ELSE IndexOfFrom(s, t, i + 1)

(***************************************************************************)
(* Pattern registry: index.ts lines 93-126.                                *)
(***************************************************************************)
JSDOC_INDENT == 4

multilinePrefixes ==
  << <<"/", "*", "*">>, <<"/", "*">>, <<"{", "/", "*">>, <<"<", "!", "-", "-">> >>

multilineInsidePrefixes == << <<"*">>, <<"/", "/">>, <<"#">> >>

allPrefixes == multilinePrefixes \o multilineInsidePrefixes

multilineSuffixes == << <<"*", "/">>, <<"*", "/", "}">>, <<"-", "-", ">">> >>

\* The alternation (?:c1|c2|...) built by regExpChoices, tried at position i
\* of s: the index of the first choice, in the order of the array, that
\* occurs there, 0 when none does.  escapeRegExp makes every choice literal.
RECURSIVE ChoiceFrom(_, _, _, _)
ChoiceFrom(choices, s, i, c) ==
  IF c > Len(choices) THEN 0
  ELSE IF StartsWithAt(s, i, choices[c]) THEN c
  ELSE ChoiceFrom(choices, s, i, c + 1)

regExpChoices(choices, s, i) == ChoiceFrom(choices, s, i, 1)

\* The regular expressions are named by their identifiers in the source.
RegExps ==
  {"prefixRegExp", "multilinePrefixRegExp", "suffixRegExp",
   "listItemRegExp", "jsDocRegExp", "tagRegExp"}

\* new RegExp(`^\\s*(?:${regExpChoices(choices)}) ?`): the length of the match
\* at the start of text, -1 when there is none.  \s* is greedy and no choice
\* starts with white space, so the choice is tried after all of it.
PrefixMatchLength(choices, text) ==
  LET k == RunLength(text, 1, WhiteSpace)
      c == regExpChoices(choices, text, k + 1)
      e == k + Len(choices[c])
  IN  IF c = 0 THEN -1
      ELSE IF e + 1 <= Len(text) /\ text[e + 1] = " " THEN e + 1
      ELSE e

\* prefixRegExp, line 109
prefixRegExp(text) == PrefixMatchLength(allPrefixes, text)

\* multilinePrefixRegExp, lines 112-114
multilinePrefixRegExp(text) == PrefixMatchLength(multilinePrefixes, text)

\* suffixRegExp, line 117: (?:\*/|\*/\}|-->)\s*$ has no ^, so it is searched
\* for; what follows the token is white space up to the end of the text, so
\* the token ends at the last character that is not white space.  The
\* position where the match starts, 0 when there is none.
suffixRegExp(text) ==
  LET e == Len(text) - TrailingSpace(text)
      starts == {e - Len(multilineSuffixes[c]) + 1 : c \in
                   {d \in 1..Len(multilineSuffixes) :
                      /\ Len(multilineSuffixes[d]) <= e
                      /\ StartsWithAt(text, e - Len(multilineSuffixes[d]) + 1,
                                      multilineSuffixes[d])}}
  IN  IF starts = {} THEN 0
      ELSE CHOOSE i \in starts : \A j \in starts : i <= j

\* [-*]|\d+\. at position i of text: the length of the marker, 0 for none
ListMarker(text, i) ==
  LET d == RunLength(text, i, Digit)
  IN  IF i <= Len(text) /\ text[i] \in {"-", "*"} THEN 1
      ELSE IF d > 0 /\ i + d <= Len(text) /\ text[i + d] = "." THEN d + 1
      ELSE 0

\* (\s+\[[ xX]\])? at position j of text: the length of the check box with
\* the white space before it, 0 when there is none and the group is skipped
CheckBox(text, j) ==
  LET w == RunLength(text, j, WhiteSpace)
  IN  IF /\ w >= 1
         /\ j + w + 2 <= Len(text)
         /\ text[j + w] = "["
         /\ text[j + w + 1] \in {" ", "x", "X"}
         /\ text[j + w + 2] = "]"
      THEN w + 3 ELSE 0

\* the end of the match whose marker ends before position j and whose check
\* box is box long: the trailing \s* is greedy
ListItemEnd(text, j, box) == j - 1 + box + RunLength(text, j + box, WhiteSpace)

\* the match from position i on, where the white space ends, for a marker of
\* the given length
ListItemFrom(text, i, marker) ==
  IF marker = 0 THEN -1
  ELSE ListItemEnd(text, i + marker, CheckBox(text, i + marker))

\* listItemRegExp, line 120: /^\s*([-*]|\d+\.)(\s+\[[ xX]\])?\s*/
\* the length of the match at the start of text, -1 when there is none
listItemRegExp(text) ==
  ListItemFrom(text, RunLength(text, 1, WhiteSpace) + 1,
               ListMarker(text, RunLength(text, 1, WhiteSpace) + 1))

\* jsDocRegExp, line 123: /^\s*@\w+\s*/
jsDocRegExp(text) ==
  LET k == RunLength(text, 1, WhiteSpace)
      w == RunLength(text, k + 2, WordChar)
  IN  IF k + 1 <= Len(text) /\ text[k + 1] = "@" /\ w >= 1
      THEN k + 1 + w + RunLength(text, k + 2 + w, WhiteSpace)
      ELSE -1

\* tagRegExp, line 126: /^\s*[A-Z]+:\s*/
tagRegExp(text) ==
  LET k == RunLength(text, 1, WhiteSpace)
      u == RunLength(text, k + 1, UpperCase)
  IN  IF u >= 1 /\ k + u + 1 <= Len(text) /\ text[k + u + 1] = ":"
      THEN k + u + 1 + RunLength(text, k + u + 2, WhiteSpace)
      ELSE -1

(***************************************************************************)
(* RegExp objects.  Each of the six is created once, when the module is    *)
(* loaded, and carries the one piece of state a RegExp has, lastIndex.     *)
(* test() starts at lastIndex and moves it only when the regex has the g   *)
(* or y flag; match() and replace() set the lastIndex of a g regex to 0.   *)
(***************************************************************************)
\* regexes that keep their position between calls, as the g flag makes them
GlobalFlags(re) == {"g"}

\* The flags of the regex: new RegExp(source) at lines 109, 112 and 117 is
\* called without a flags argument and the literals of lines 120, 123 and
\* 126 end at the closing slash.
RegExpFlags(re) == {}

\* lastIndex of every regex when the module has been loaded
NewRegExps == [re \in RegExps |-> 0]

\* re.test(text) with the regexes in state li, for the match of re in text
\* that starts at index start and ends at index end (0-based, end is -1 when
\* text has no match): the answer and the state left
Test(re, start, end, li) ==
  LET sticky == RegExpFlags(re) \cap {"g", "y"} # {}
      found == end >= 0 /\ start >= (IF sticky THEN li[re] ELSE 0)
  IN  [ok |-> found,
       lastIndex |-> IF sticky
                     THEN [li EXCEPT ![re] = IF found THEN end ELSE 0]
                     ELSE li]

\* the state left by text.match(re) and by text.replace(re, ...)
AfterMatch(re, li) ==
  IF "g" \in RegExpFlags(re) THEN [li EXCEPT ![re] = 0] ELSE li

(***************************************************************************)
(* Line classifier: index.ts lines 136-205.                                *)
(***************************************************************************)
isCommentStartIn(text, li) ==
  Test("multilinePrefixRegExp", 0, multilinePrefixRegExp(text), li)

isCommentStart(text) == isCommentStartIn(text, NewRegExps).ok

isCommentEndIn(text, li) ==
  Test("suffixRegExp", suffixRegExp(text) - 1,
       IF suffixRegExp(text) = 0 THEN -1 ELSE Len(text), li)

isCommentEnd(text) == isCommentEndIn(text, NewRegExps).ok

\* a check that takes an empty line for a break as well
isCommentBreakOrEmpty(text) ==
  trim(text) = <<>> \/ Includes(multilineInsidePrefixes, trim(text))

isCommentBreak(text) == Includes(multilineInsidePrefixes, trim(text))

isCommentIn(text, li) == Test("prefixRegExp", 0, prefixRegExp(text), li)

isComment(text) == isCommentIn(text, NewRegExps).ok

getCommentPrefix(text) ==
  IF prefixRegExp(text) >= 0 THEN Take(text, prefixRegExp(text)) ELSE <<>>

getCommentSuffix(text) ==
  IF suffixRegExp(text) > 0 THEN Drop(text, suffixRegExp(text) - 1) ELSE <<>>

(***************************************************************************)
(* Prefix normalizer: index.ts lines 216-239.                              *)
(***************************************************************************)
\* a replacement of the literal alone, which leaves the run after it
ReplaceLiteral(s, lit, cls, by) ==
  LET i == IndexOfFrom(s, lit, 1)
  IN  IF i = 0 THEN s ELSE Take(s, i - 1) \o by \o Drop(s, i - 1 + Len(lit))

\* s.replace(/lit cls*/, by) for a literal lit followed by a greedy run of
\* characters of class cls: the first occurrence is replaced
ReplaceRun(s, lit, cls, by) ==
  LET i == IndexOfFrom(s, lit, 1)
      n == Len(lit) + RunLength(s, i + Len(lit), cls)
  IN  IF i = 0 THEN s ELSE Take(s, i - 1) \o by \o Drop(s, i - 1 + n)

\* a normalization that leaves the end of the prefix as it is
normalizeWithoutSpace(prefix) ==
  LET normalizedPrefix ==
        ReplaceRun(
          ReplaceRun(
            ReplaceRun(prefix, <<"{", "/", "*">>, {"*"}, <<" ", " ", "*">>),
            <<"/", "*">>, {"*"}, <<" ", "*">>),
          <<"<", "!", "-", "-">>, {" ", "\t"}, <<>>)
  IN  IF trim(prefix) = <<>> THEN prefix ELSE normalizedPrefix

\* a normalization that appends the space without removing the white space
\* that is there
normalizeAppending(prefix) ==
  LET normalizedPrefix ==
        ReplaceRun(
          ReplaceRun(
            ReplaceRun(prefix, <<"{", "/", "*">>, {"*"}, <<" ", " ", "*">>),
            <<"/", "*">>, {"*"}, <<" ", "*">>),
          <<"<", "!", "-", "-">>, {" ", "\t"}, <<>>)
  IN  IF trim(prefix) = <<>> THEN prefix
      ELSE IF trim(normalizedPrefix) = <<>> THEN normalizedPrefix
      ELSE normalizedPrefix \o <<" ">>

normalizeCommentPrefix(prefix) ==
  LET normalizedPrefix ==
        ReplaceRun(
          ReplaceRun(
            ReplaceRun(prefix, <<"{", "/", "*">>, {"*"}, <<" ", " ", "*">>),
            <<"/", "*">>, {"*"}, <<" ", "*">>),
          <<"<", "!", "-", "-">>, {" ", "\t"}, <<>>)
  IN  IF trim(prefix) = <<>> THEN prefix
      ELSE IF trim(normalizedPrefix) = <<>> THEN normalizedPrefix
      ELSE trimEnd(normalizedPrefix) \o <<" ">>

(***************************************************************************)
(* Line splitting and stripping: index.ts lines 246-274.                   *)
(***************************************************************************)
\* whether a line break, \r?\n, starts at position i of s, and its length
LineBreakAt(s, i) ==
  IF i <= Len(s) /\ s[i] = "\n" THEN 1
  ELSE IF i + 1 <= Len(s) /\ s[i] = "\r" /\ s[i + 1] = "\n" THEN 2
  ELSE 0

\* the length of the run of line breaks, (?:\r?\n)+, that starts at i
RECURSIVE LineBreakRun(_, _)
LineBreakRun(s, i) ==
  IF LineBreakAt(s, i) = 0 THEN 0
  ELSE LineBreakAt(s, i) + LineBreakRun(s, i + LineBreakAt(s, i))

\* the first position at or after i where a line break starts
RECURSIVE FirstLineBreak(_, _)
FirstLineBreak(s, i) ==
  IF i > Len(s) \/ LineBreakAt(s, i) > 0 THEN i ELSE FirstLineBreak(s, i + 1)

\* text.split(/(?:\r?\n)+/)
RECURSIVE splitIntoLines(_)
splitIntoLines(text) ==
  LET i == FirstLineBreak(text, 1)
  IN  IF i > Len(text) THEN <<text>>
      ELSE <<Take(text, i - 1)>>
             \o splitIntoLines(Drop(text, i - 1 + LineBreakRun(text, i)))

\* a filter that lets every line through
KeepEmpty(lines) == lines

\* lines.filter((line) => line.trim() !== '')
RECURSIVE FilterOutEmpty(_)
FilterOutEmpty(lines) ==
  IF Len(lines) = 0 THEN <<>>
  ELSE (IF trim(lines[1]) # <<>> THEN <<lines[1]>> ELSE <<>>)
         \o FilterOutEmpty(Tail(lines))

\* line.replace(suffixRegExp, '')
StripSuffix(line) ==
  IF suffixRegExp(line) > 0 THEN Take(line, suffixRegExp(line) - 1) ELSE line

\* a removal of the prefix that takes the white space after it as well
StripPrefixAndSpace(line) ==
  IF prefixRegExp(line) >= 0 THEN trimStart(Drop(line, prefixRegExp(line)))
  ELSE line

\* line.replace(prefixRegExp, '')
StripPrefix(line) ==
  IF prefixRegExp(line) >= 0 THEN Drop(line, prefixRegExp(line)) ELSE line

stripFormatting(text) ==
  LET lines == splitIntoLines(text)
      clean == [i \in 1..Len(lines) |-> trimEnd(StripPrefix(StripSuffix(lines[i])))]
  IN  FilterOutEmpty(clean)

\* the regex state stripFormatting leaves: it calls replace() with
\* suffixRegExp and with prefixRegExp on every line, and there is always a line
AfterStripFormatting(li) == AfterMatch("prefixRegExp", AfterMatch("suffixRegExp", li))

\* a length that reserves two more characters for an extra indent
getNarrowerLength(prefix, maxLength) == maxLength - Len(prefix) - 2

\* a length that leaves the prefix out of the account
getWholeLength(prefix, maxLength) == maxLength

getAvailableLength(prefix, maxLength) == maxLength - Len(prefix)

(***************************************************************************)
(* Chunker: index.ts lines 279-313.                                        *)
(***************************************************************************)
\* first || re.test(text): a test that || skips is not run and leaves its
\* regex alone
OrTest(first, re, start, end) ==
  IF first.ok THEN first ELSE Test(re, start, end, first.lastIndex)

\* a check that leaves the free-form tags out
isListItemOrJsDocIn(text, li) ==
  OrTest(Test("listItemRegExp", 0, listItemRegExp(text), li),
         "jsDocRegExp", 0, jsDocRegExp(text))

\* listItemRegExp.test(text) || jsDocRegExp.test(text) || tagRegExp.test(text)
isListItemOrTagIn(text, li) ==
  OrTest(OrTest(Test("listItemRegExp", 0, listItemRegExp(text), li),
                "jsDocRegExp", 0, jsDocRegExp(text)),
         "tagRegExp", 0, tagRegExp(text))

isListItemOrTag(text) == isListItemOrTagIn(text, NewRegExps).ok

RECURSIVE ChunkLoop(_, _, _, _, _)
\* a step that starts the new chunk without the line that marks it
ChunkStepDropping(lines, i, chunks, currentChunk, marked) ==
  IF marked.ok /\ Len(currentChunk) > 0
  THEN ChunkLoop(lines, i + 1, Append(chunks, currentChunk), <<>>,
                 marked.lastIndex)
  ELSE ChunkLoop(lines, i + 1, chunks, Append(currentChunk, lines[i]),
                 marked.lastIndex)

\* the body of the loop for line i, marked being what isListItemOrTag(line)
\* answered: a marked line starts a new chunk unless the current one is empty
ChunkStep(lines, i, chunks, currentChunk, marked) ==
  IF marked.ok /\ Len(currentChunk) > 0
  THEN ChunkLoop(lines, i + 1, Append(chunks, currentChunk), <<lines[i]>>,
                 marked.lastIndex)
  ELSE ChunkLoop(lines, i + 1, chunks, Append(currentChunk, lines[i]),
                 marked.lastIndex)

\* the for loop of splitIntoChunks from line i on, with the chunks pushed so
\* far and the current chunk
ChunkLoop(lines, i, chunks, currentChunk, li) ==
  IF i > Len(lines)
  THEN [chunks |-> IF Len(currentChunk) > 0 THEN Append(chunks, currentChunk)
                   ELSE chunks,
        lastIndex |-> li]
  ELSE ChunkStep(lines, i, chunks, currentChunk, isListItemOrTagIn(lines[i], li))

\* chunks.map((chunk) => chunk.join('\n'))
JoinChunks(loop) ==
  [chunks |-> [c \in 1..Len(loop.chunks) |-> Join(loop.chunks[c], <<"\n">>)],
   lastIndex |-> loop.lastIndex]

splitIntoChunksIn(lines, li) == JoinChunks(ChunkLoop(lines, 1, <<>>, <<>>, li))

splitIntoChunks(lines) == splitIntoChunksIn(lines, NewRegExps).chunks

(***************************************************************************)
(* Greedy wrapper: index.ts lines 318-341.                                 *)
(***************************************************************************)
\* text.split(/\s+/)
RECURSIVE SplitWords(_)
SplitWords(text) ==
  LET i == FirstOf(text, 1, WhiteSpace)
  IN  IF i > Len(text) THEN <<text>>
      ELSE <<Take(text, i - 1)>>
             \o SplitWords(Drop(text, i - 1 + RunLength(text, i, WhiteSpace)))

\* the for loop of wrapTextBlock from word i on, and the push that follows it
RECURSIVE WrapLoop(_, _, _, _, _)
WrapLoop(words, i, lines, currentLine, maxLength) ==
  IF i > Len(words)
  THEN IF currentLine # <<>> THEN Append(lines, currentLine) ELSE lines
  ELSE LET word == words[i]
           isFirstWord == currentLine = <<>>
           nextCurrentLine ==
             currentLine \o (IF isFirstWord THEN <<>> ELSE <<" ">>) \o word
       IN  IF Len(nextCurrentLine) > maxLength
           THEN WrapLoop(words, i + 1,
                         IF currentLine # <<>> THEN Append(lines, currentLine)
                         ELSE lines,
                         word, maxLength)
           ELSE WrapLoop(words, i + 1, lines, nextCurrentLine, maxLength)

\* a wrapper that ends every line one character early
wrapTextBlockNarrower(text, maxLength) ==
  WrapLoop(SplitWords(text), 1, <<>>, <<>>, maxLength - 1)

\* a wrapper that lets every line be one character longer
wrapTextBlockWider(text, maxLength) ==
  WrapLoop(SplitWords(text), 1, <<>>, <<>>, maxLength + 1)

wrapTextBlock(text, maxLength) ==
  WrapLoop(SplitWords(text), 1, <<>>, <<>>, maxLength)

(***************************************************************************)
(* Structured-item wrapper: index.ts lines 346-367.                        *)
(***************************************************************************)
\* s.replace(t, by) with a string t: the first occurrence is replaced
ReplaceFirst(s, t, by) ==
  LET i == IndexOfFrom(s, t, 1)
  IN  IF i = 0 THEN s ELSE Take(s, i - 1) \o by \o Drop(s, i - 1 + Len(t))

\* a match that takes a free-form tag for a marker as well
MatchedPrefixOrTag(chunk, list, jsDoc) ==
  IF list >= 0 THEN Take(chunk, list)
  ELSE IF jsDoc >= 0 THEN Take(chunk, jsDoc)
  ELSE IF tagRegExp(chunk) >= 0 THEN Take(chunk, tagRegExp(chunk))
  ELSE <<>>

\* match[0] of chunk.match(listItemRegExp) || chunk.match(jsDocRegExp), for
\* matches of the two regexes that are list and jsDoc long
MatchedPrefix(chunk, list, jsDoc) ==
  IF list >= 0 THEN Take(chunk, list)
  ELSE IF jsDoc >= 0 THEN Take(chunk, jsDoc)
  ELSE <<>>

ItemPrefix(chunk) ==
  MatchedPrefix(chunk, listItemRegExp(chunk), jsDocRegExp(chunk))

\* the regex state the two match() calls leave: || skips the second one
AfterItemMatch(chunk, li) ==
  IF listItemRegExp(chunk) >= 0
  THEN AfterMatch("listItemRegExp", li)
  ELSE AfterMatch("jsDocRegExp", AfterMatch("listItemRegExp", li))

\* lines.map(...), lines 360-364: the prefix is put back on the first line,
\* whose leading '@' are removed, and the other lines are indented
FormatLines(prefix, indentLength, lines) ==
  [index \in 1..Len(lines) |->
     IF index = 1
     THEN prefix \o Drop(lines[1], RunLength(lines[1], 1, {"@"}))
     ELSE Repeat(" ", indentLength) \o lines[index]]

\* lines 349-366, for the prefix matched and for what jsDocRegExp.test(chunk)
\* answered
FormatItem(chunk, maxLength, prefix, isJsDoc) ==
  LET prefixLength == Len(prefix)
      indentLength == IF isJsDoc.ok THEN JSDOC_INDENT ELSE Len(prefix)
      cleanChunk == Repeat("@", prefixLength - indentLength)
                      \o ReplaceFirst(chunk, prefix, <<>>)
  IN  \* '@'.repeat(count) raises RangeError when count is negative
      IF prefixLength - indentLength < 0
      THEN [lines |-> <<>>, threw |-> TRUE, lastIndex |-> isJsDoc.lastIndex]
      ELSE [lines |-> FormatLines(prefix, indentLength,
                                  wrapTextBlock(cleanChunk,
                                                maxLength - indentLength)),
            threw |-> FALSE,
            lastIndex |-> isJsDoc.lastIndex]

wrapListItemIn(chunk, maxLength, li) ==
  FormatItem(chunk, maxLength, ItemPrefix(chunk),
             Test("jsDocRegExp", 0, jsDocRegExp(chunk), AfterItemMatch(chunk, li)))

wrapListItemThrows(chunk, maxLength) ==
  wrapListItemIn(chunk, maxLength, NewRegExps).threw

wrapListItem(chunk, maxLength) ==
  wrapListItemIn(chunk, maxLength, NewRegExps).lines

(***************************************************************************)
(* Reconstructor: index.ts lines 372-410.                                  *)
(***************************************************************************)
RECURSIVE ChunksLoop(_, _, _, _, _)
\* lines.push(...wrappedLines) for the list item of chunk i, unless
\* wrapListItem threw
PushItem(chunks, i, lines, availableMaxLength, item) ==
  IF item.threw
  THEN [lines |-> lines, threw |-> TRUE, lastIndex |-> item.lastIndex]
  ELSE ChunksLoop(chunks, i + 1, lines \o item.lines, availableMaxLength,
                  item.lastIndex)

\* the body of the loop for chunk i, marked being what isListItemOrTag(chunk)
\* answered
WrapChunk(chunks, i, lines, availableMaxLength, marked) ==
  IF marked.ok
  THEN PushItem(chunks, i, lines, availableMaxLength,
                wrapListItemIn(chunks[i], availableMaxLength, marked.lastIndex))
  ELSE ChunksLoop(chunks, i + 1,
                  lines \o wrapTextBlock(chunks[i], availableMaxLength),
                  availableMaxLength, marked.lastIndex)

\* the for loop over the chunks from chunk i on, with the lines pushed so far
ChunksLoop(chunks, i, lines, availableMaxLength, li) ==
  IF i > Len(chunks) THEN [lines |-> lines, threw |-> FALSE, lastIndex |-> li]
  ELSE WrapChunk(chunks, i, lines, availableMaxLength,
                 isListItemOrTagIn(chunks[i], li))

\* a comparison that is off by one
IsShorter(comment, maxLength) ==
  Len(splitIntoLines(comment)) = 1 /\ Len(comment) < maxLength

\* the condition of the early return of lines 373-376
IsShortEnough(comment, maxLength) ==
  Len(splitIntoLines(comment)) = 1 /\ Len(comment) <= maxLength

\* normalizedPrefix.replace(/\*\s*$/, ''): a * followed by white space up to
\* the end is removed
Indentation(normalizedPrefix) ==
  LET e == Len(normalizedPrefix) - TrailingSpace(normalizedPrefix)
  IN  IF e >= 1 /\ normalizedPrefix[e] = "*" THEN Take(normalizedPrefix, e - 1)
      ELSE normalizedPrefix

\* the prefix loses the space that ends it
PrefixLinesTrimmed(normalizedPrefix, lines) ==
  [i \in 1..Len(lines) |-> trimEnd(normalizedPrefix) \o lines[i]]

\* lines.map((line) => `${normalizedPrefix}${line}`), line 394
PrefixLines(normalizedPrefix, lines) ==
  [i \in 1..Len(lines) |-> normalizedPrefix \o lines[i]]

\* lines 397-400: the opening marker is put back as a line of its own
RestoreOpening(firstLinePrefix, prefixedLines) ==
  LET cleanFirstLinePrefix == trim(firstLinePrefix)
  IN  IF Includes(multilinePrefixes, cleanFirstLinePrefix)
      THEN <<trimEnd(firstLinePrefix)>> \o prefixedLines
      ELSE prefixedLines

\* lines 404-407: the closing marker is put back as a line of its own
RestoreClosing(lastLineSuffix, normalizedPrefix, prefixedLines) ==
  IF Includes(multilineSuffixes, lastLineSuffix)
  THEN Append(prefixedLines, Indentation(normalizedPrefix) \o lastLineSuffix)
  ELSE prefixedLines

\* lines 394-409: the wrapped lines get the normalized prefix, the markers
\* are restored and the lines are joined, unless wrapping them threw
Reconstruct(comment, firstLinePrefix, normalizedPrefix, wrapped) ==
  IF wrapped.threw
  THEN [value |-> <<>>, threw |-> TRUE, lastIndex |-> wrapped.lastIndex]
  ELSE [value |->
          Join(RestoreClosing(
                 getCommentSuffix(comment), normalizedPrefix,
                 RestoreOpening(firstLinePrefix,
                                PrefixLines(normalizedPrefix, wrapped.lines))),
               <<"\n">>),
        threw |-> FALSE,
        lastIndex |-> AfterMatch("suffixRegExp", wrapped.lastIndex)]

\* lines 378-409: the chunks are wrapped to the length the normalized prefix
\* leaves; split is what splitIntoChunks(stripFormatting(comment)) returned
Reflow(comment, maxLength, split, firstLinePrefix, normalizedPrefix) ==
  Reconstruct(comment, firstLinePrefix, normalizedPrefix,
              ChunksLoop(split.chunks, 1, <<>>,
                         getAvailableLength(normalizedPrefix, maxLength),
                         AfterMatch("prefixRegExp", split.lastIndex)))

\* wrapComment(comment, maxLength) called with the regexes in state li: the
\* string returned, whether the call threw instead, and the state left
wrapCommentIn(comment, maxLength, li) ==
  IF IsShortEnough(comment, maxLength)
  THEN [value |-> comment, threw |-> FALSE, lastIndex |-> li]
  ELSE Reflow(comment, maxLength,
              splitIntoChunksIn(stripFormatting(comment), AfterStripFormatting(li)),
              getCommentPrefix(comment),
              normalizeCommentPrefix(getCommentPrefix(comment)))

wrapCommentThrows(comment, maxLength) ==
  wrapCommentIn(comment, maxLength, NewRegExps).threw

wrapComment(comment, maxLength) ==
  wrapCommentIn(comment, maxLength, NewRegExps).value

(***************************************************************************)
(* The calls a client makes.  The module keeps no variable of its own but  *)
(* the six RegExp objects; the other variables hold the arguments of the   *)
(* calls and what they returned.                                           *)
(***************************************************************************)
VARIABLES
  comment,    \* the text the client passes
  maxLength,  \* the width the client passes
  pc,         \* the last call made
  output,     \* what wrapComment(comment, maxLength) returned
  threw,      \* whether that call threw instead of returning
  rewrapped,  \* the outcome of wrapComment(output, maxLength)
  repeated,   \* the outcome of a later wrapComment(comment, maxLength)
  lines,      \* what wrapTextBlock(comment, maxLength) returned
  marked,     \* what isListItemOrTag(comment) returned
  isBreak,    \* what isCommentBreak(comment) returned
  normalized, \* what normalizeCommentPrefix(comment) returned
  chunked,    \* what splitIntoChunks(splitIntoLines(comment)) returned
  listItem,   \* the outcome of wrapListItem(comment, maxLength)
  lastIndex   \* lastIndex of each RegExp object of the module

vars ==
  <<comment, maxLength, pc, output, threw, rewrapped, repeated, lines, marked,
    isBreak, normalized, chunked, listItem, lastIndex>>

\* the longest input, counted in tokens, and the largest width
MaxTokens == 4
MaxWidth == 5

\* the same for the block comments
MaxBlockTokens == 3
MaxBlockWidth == 8

\* the pieces the inputs are made of: a word, white space, a line break,
\* line-comment markers, a bullet, a documentation tag and a break line
LineTokens ==
  { <<"a">>, <<" ">>, <<"\n">>, <<"/", "/", " ">>, <<"#">>, <<"-", " ">>,
    <<"@", "a">>, <<"\n", "/", "/", "\n">> }

\* the pieces of block comments: openers, closers, a word, a documentation
\* tag, white space, a line break, a line-comment marker and two words
BlockTokens ==
  { <<"/", "*", " ">>, <<"/", "*", "*">>, <<"{", "/", "*", " ">>,
    <<"<", "!", "-", "-", " ">>, <<" ", "*", "/">>, <<"*", "/", "}">>,
    <<" ", "-", "-", ">">>, <<"a">>, <<"@", "a">>, <<" ">>, <<"\n">>,
    <<"/", "/", " ">>, <<"a", " ", "a">> }

\* the same for the lists and the documentation tags
MaxItemTokens == 3
MaxItemWidth == 8

\* the pieces of lists and tags: two bullet items, a nested one, a numbered
\* item, a checklist item, a documentation tag and a free-form tag, each with
\* its first word, one more word, a line break and a line-comment marker
ItemTokens ==
  { <<"-", " ", "a">>, <<"*", " ", "a">>, <<"2", ".", " ", "a">>,
    <<"-", " ", "[", "x", "]", " ", "a">>, <<"@", "s", "e", "e", " ", "a">>,
    <<"T", "O", ":", " ", "a">>, <<" ", " ", "-", " ", "a">>, <<" ", "a">>,
    <<"\n">>, <<"/", "/", " ">> }

\* the texts made of at most n tokens
RECURSIVE Texts(_, _)
Texts(tokens, n) ==
  IF n = 0 THEN {<<>>}
  ELSE LET shorter == Texts(tokens, n - 1)
       IN  shorter \cup {t \o k : t \in shorter, k \in tokens}

NoOutcome == [value |-> <<>>, threw |-> FALSE]

Outcome(call) == [value |-> call.value, threw |-> call.threw]

NoItem == [lines |-> <<>>, threw |-> FALSE]

Start(texts, widths) ==
  /\ comment \in texts
  /\ maxLength \in widths
  /\ pc = "start"
  /\ output = <<>>
  /\ threw = FALSE
  /\ rewrapped = NoOutcome
  /\ repeated = NoOutcome
  /\ lines = <<>>
  /\ marked = FALSE
  /\ isBreak = FALSE
  /\ normalized = <<>>
  /\ chunked = <<>>
  /\ listItem = NoItem
  /\ lastIndex = NewRegExps

Init == Start(Texts(LineTokens, MaxTokens), 1..MaxWidth)

InitBlock == Start(Texts(BlockTokens, MaxBlockTokens), 1..MaxBlockWidth)

InitItem == Start(Texts(ItemTokens, MaxItemTokens), 1..MaxItemWidth)

\* wrapComment(comment, maxLength)
WrapComment ==
  /\ pc = "start"
  /\ \E call \in {wrapCommentIn(comment, maxLength, lastIndex)} :
       /\ output' = call.value
       /\ threw' = call.threw
       /\ lastIndex' = call.lastIndex
  /\ pc' = "wrapComment"
  /\ UNCHANGED <<comment, maxLength, rewrapped, repeated, lines, marked,
                 isBreak, normalized, chunked, listItem>>

\* wrapComment(output, maxLength): the client wraps what it got once more
Rewrap ==
  /\ pc = "wrapComment"
  /\ ~threw
  /\ \E call \in {wrapCommentIn(output, maxLength, lastIndex)} :
       /\ rewrapped' = Outcome(call)
       /\ lastIndex' = call.lastIndex
  /\ pc' = "rewrap"
  /\ UNCHANGED <<comment, maxLength, output, threw, repeated, lines, marked,
                 isBreak, normalized, chunked, listItem>>

\* isListItemOrTag(comment)
IsListItemOrTag ==
  /\ pc = "wrapComment"
  /\ \E call \in {isListItemOrTagIn(comment, lastIndex)} :
       /\ marked' = call.ok
       /\ lastIndex' = call.lastIndex
  /\ pc' = "isListItemOrTag"
  /\ UNCHANGED <<comment, maxLength, output, threw, rewrapped, repeated, lines,
                 isBreak, normalized, chunked, listItem>>

\* wrapComment(comment, maxLength) again, after other calls
WrapCommentAgain ==
  /\ pc \in {"rewrap", "isListItemOrTag"}
  /\ \E call \in {wrapCommentIn(comment, maxLength, lastIndex)} :
       /\ repeated' = Outcome(call)
       /\ lastIndex' = call.lastIndex
  /\ pc' = "wrapCommentAgain"
  /\ UNCHANGED <<comment, maxLength, output, threw, rewrapped, lines, marked,
                 isBreak, normalized, chunked, listItem>>

\* wrapTextBlock(comment, maxLength)
WrapTextBlock ==
  /\ pc = "start"
  /\ lines' = wrapTextBlock(comment, maxLength)
  /\ pc' = "wrapTextBlock"
  /\ UNCHANGED <<comment, maxLength, output, threw, rewrapped, repeated, marked,
                 isBreak, normalized, chunked, listItem, lastIndex>>

\* isCommentBreak(comment)
IsCommentBreak ==
  /\ pc = "start"
  /\ isBreak' = isCommentBreak(comment)
  /\ pc' = "isCommentBreak"
  /\ UNCHANGED <<comment, maxLength, output, threw, rewrapped, repeated, lines,
                 marked, normalized, chunked, listItem, lastIndex>>

\* normalizeCommentPrefix(comment)
NormalizeCommentPrefix ==
  /\ pc = "start"
  /\ normalized' = normalizeCommentPrefix(comment)
  /\ pc' = "normalizeCommentPrefix"
  /\ UNCHANGED <<comment, maxLength, output, threw, rewrapped, repeated, lines,
                 marked, isBreak, chunked, listItem, lastIndex>>

\* splitIntoChunks(splitIntoLines(comment))
SplitIntoChunks ==
  /\ pc = "start"
  /\ \E call \in {splitIntoChunksIn(splitIntoLines(comment), lastIndex)} :
       /\ chunked' = call.chunks
       /\ lastIndex' = call.lastIndex
  /\ pc' = "splitIntoChunks"
  /\ UNCHANGED <<comment, maxLength, output, threw, rewrapped, repeated, lines,
                 marked, isBreak, normalized, listItem>>

\* wrapListItem(comment, maxLength)
WrapListItem ==
  /\ pc = "start"
  /\ \E call \in {wrapListItemIn(comment, maxLength, lastIndex)} :
       /\ listItem' = [lines |-> call.lines, threw |-> call.threw]
       /\ lastIndex' = call.lastIndex
  /\ pc' = "wrapListItem"
  /\ UNCHANGED <<comment, maxLength, output, threw, rewrapped, repeated, lines,
                 marked, isBreak, normalized, chunked>>

Next ==
  \/ WrapComment
  \/ Rewrap
  \/ IsListItemOrTag
  \/ WrapCommentAgain
  \/ WrapTextBlock
  \/ IsCommentBreak
  \/ NormalizeCommentPrefix
  \/ SplitIntoChunks
  \/ WrapListItem

Spec == Init /\ [][Next]_vars

SpecBlock == InitBlock /\ [][Next]_vars

SpecItem == InitItem /\ [][Next]_vars

(***************************************************************************)
(* What the claims speak of.                                               *)
(***************************************************************************)
HasLineBreak(text) == \E i \in 1..Len(text) : text[i] = "\n"

\* the lines of a text that is joined with "\n"; the empty text has no line
RECURSIVE LinesOf(_)
LinesOf(text) ==
  LET i == FirstOf(text, 1, {"\n"})
  IN  IF i > Len(text) THEN <<text>>
      ELSE <<Take(text, i - 1)>> \o LinesOf(Drop(text, i))

OutputLines(text) == IF text = <<>> THEN <<>> ELSE LinesOf(text)

EndsWith(text, t) ==
  Len(t) <= Len(text) /\ SubSeq(text, Len(text) - Len(t) + 1, Len(text)) = t

\* "/* a */", a one-line block comment
OneLineBlock == <<"/", "*", " ", "a", " ", "*", "/">>

\* C1: a text without a line break that is no longer than maxLength is
\* returned as it is, the empty text and a one-line block comment included.
C1_ShortIsUnchanged ==
  (pc = "wrapComment" /\ ~HasLineBreak(comment) /\ Len(comment) <= maxLength)
    => (~threw /\ output = comment)

\* a one-line block comment that just fits has been passed and returned
C1_Witness ==
  /\ pc = "wrapComment"
  /\ comment = OneLineBlock
  /\ maxLength = Len(OneLineBlock)
  /\ output = OneLineBlock

\* C2: wrapComment is idempotent: wrapping what wrapComment returned, with
\* the same width, returns it unchanged.
C2_Idempotent ==
  pc = "rewrap" => (~rewrapped.threw /\ rewrapped.value = output)

\* the words of a text: its pieces between runs of white space
RECURSIVE RemoveEmpty(_)
RemoveEmpty(words) ==
  IF Len(words) = 0 THEN <<>>
  ELSE (IF words[1] # <<>> THEN <<words[1]>> ELSE <<>>) \o RemoveEmpty(Tail(words))

Words(text) == RemoveEmpty(SplitWords(text))

\* a chunk without its list marker, documentation tag or upper-case tag
WithoutMarker(chunk) ==
  IF listItemRegExp(chunk) >= 0 THEN Drop(chunk, listItemRegExp(chunk))
  ELSE IF jsDocRegExp(chunk) >= 0 THEN Drop(chunk, jsDocRegExp(chunk))
  ELSE IF tagRegExp(chunk) >= 0 THEN Drop(chunk, tagRegExp(chunk))
  ELSE chunk

RECURSIVE WordsOfChunks(_)
WordsOfChunks(chunks) ==
  IF Len(chunks) = 0 THEN <<>>
  ELSE Words(WithoutMarker(chunks[1])) \o WordsOfChunks(Tail(chunks))

\* the words left of a text when the comment prefixes and suffixes of its
\* lines and the markers of its chunks are removed
ContentWords(text) == WordsOfChunks(splitIntoChunks(stripFormatting(text)))

\* C3: the words left after removing prefixes, suffixes and markers from the
\* output are the words left after removing them from the input, in order.
C3_ContentPreserved ==
  (pc = "wrapComment" /\ ~threw) => ContentWords(output) = ContentWords(comment)

\* C4: wrapComment returns a string for every text and every positive width;
\* it never throws.
C4_NeverThrows ==
  pc = "wrapComment" => ~threw

\* the number of spaces and tabs that indent the first line of a text
Indent(text) == RunLength(text, 1, {" ", "\t"})

\* the block-style opener the first line of a text begins with, after its
\* indentation: its index in multilinePrefixes, the longest first, 0 for none
OpenerOf(text) == ChoiceFrom(multilinePrefixes, text, Indent(text) + 1, 1)

\* the closer that matches each opener of multilinePrefixes
MatchingCloser ==
  << <<"*", "/">>, <<"*", "/">>, <<"*", "/", "}">>, <<"-", "-", ">">> >>

\* the text begins with an opener and ends with the closer that matches it
OpensAndCloses(text) ==
  OpenerOf(text) # 0 /\ EndsWith(text, MatchingCloser[OpenerOf(text)])

\* the output begins with the opener of the text and ends with its closer,
\* each alone on a line of its own, apart from the indentation
DelimitersOnOwnLines(text, out) ==
  LET ls == OutputLines(out)
  IN  /\ Len(ls) >= 2
      /\ ls[1] = Take(text, Indent(text)) \o multilinePrefixes[OpenerOf(text)]
      /\ trim(ls[Len(ls)]) = MatchingCloser[OpenerOf(text)]

\* C5: whenever the input begins with a block-style opener and ends with its
\* matching closer, wrapComment returns a text that begins with that opener
\* and ends with that closer, each alone on its own line.  Stated for the
\* inputs wrapComment reflows, those that are not a single line that fits.
C5_MarkersRestored ==
  (/\ pc = "wrapComment"
   /\ OpensAndCloses(comment)
   /\ ~IsShortEnough(comment, maxLength))
    => (~threw /\ DelimitersOnOwnLines(comment, output))

\* the lines the reconstructor puts in front of the content lines of a text
\* and after them: none, or the one line that carries the marker
OpenerLine(text) == RestoreOpening(getCommentPrefix(text), <<>>)

CloserLine(text) ==
  RestoreClosing(getCommentSuffix(text),
                 normalizeCommentPrefix(getCommentPrefix(text)), <<>>)

EndsWithCloser(text) ==
  \E k \in 1..Len(multilineSuffixes) : EndsWith(text, multilineSuffixes[k])

\* the output of a reflowed text starts with its opener line, when it has one,
\* and ends with its closer line, when it has one
DelimiterLinesIn(text, out) ==
  /\ StartsWithAt(out, 1, Join(OpenerLine(text), <<"\n">>))
  /\ EndsWith(out, Join(CloserLine(text), <<"\n">>))

\* C6: delimiters are never fabricated.  The output has an opener line only
\* if the first line of the input begins with a block-style opener, and a
\* closer line only if the input ends with a closer token; an unterminated
\* block comment gets no closer line.
C6_Original ==
  (pc = "wrapComment" /\ ~threw /\ ~IsShortEnough(comment, maxLength))
    => /\ DelimiterLinesIn(comment, output)
       /\ OpenerLine(comment) # <<>> => OpenerOf(comment) # 0
       /\ CloserLine(comment) # <<>> => EndsWithCloser(comment)

\* "- a a", a list item of two words
TwoWordItem == <<"-", " ", "a", " ", "a">>

\* C7: wrapComment is deterministic and keeps no state between calls: a call
\* with the same text and the same width returns the same string, whatever
\* calls were made in between, and no RegExp object of the module has moved.
C7_Deterministic ==
  /\ lastIndex = NewRegExps
  /\ pc = "wrapCommentAgain" => repeated = [value |-> output, threw |-> threw]

\* a list item has been reflowed, tested with the module's regexes and
\* reflowed again
C7_Witness ==
  /\ pc = "wrapCommentAgain"
  /\ comment = TwoWordItem
  /\ maxLength = 3
  /\ marked
  /\ output = <<"-", " ", "a", "\n", " ", " ", "a">>
  /\ repeated.value = output

\* C8: every line wrapTextBlock returns is no longer than maxLength, unless
\* the line is one word that is itself longer than maxLength.
C8_WidthKept ==
  pc = "wrapTextBlock"
    => \A i \in 1..Len(lines) :
         \/ Len(lines[i]) <= maxLength
         \/ Words(lines[i]) = <<lines[i]>>

\* "aa a" has been wrapped at width 1: the long word stands alone
C8_Witness ==
  /\ pc = "wrapTextBlock"
  /\ comment = <<"a", "a", " ", "a">>
  /\ maxLength = 1
  /\ lines = << <<"a", "a">>, <<"a">> >>

\* line.split(' '): the pieces of a line between single spaces
RECURSIVE SplitOnSpaces(_)
SplitOnSpaces(line) ==
  LET i == FirstOf(line, 1, {" "})
  IN  IF i > Len(line) THEN <<line>>
      ELSE <<Take(line, i - 1)>> \o SplitOnSpaces(Drop(line, i))

RECURSIVE PiecesOf(_)
PiecesOf(ls) ==
  IF Len(ls) = 0 THEN <<>>
  ELSE SplitOnSpaces(ls[1]) \o PiecesOf(Tail(ls))

\* C9: the lines wrapTextBlock returns, split on single spaces and put end to
\* end, are the non-empty words of the text, in order, and no line is empty.
C9_WordsKept ==
  pc = "wrapTextBlock"
    => /\ PiecesOf(lines) = Words(comment)
       /\ \A i \in 1..Len(lines) : lines[i] # <<>>

\* the lines of the output between the restored opener line and the restored
\* closer line
ContentLines(text, out) ==
  LET ls == OutputLines(out)
      first == IF OpenerLine(text) # <<>> THEN 2 ELSE 1
      last == IF CloserLine(text) # <<>> THEN Len(ls) - 1 ELSE Len(ls)
  IN  SubSeq(ls, first, last)

\* the normalized prefix of the first line of a text
FirstLinePrefix(text) ==
  normalizeCommentPrefix(getCommentPrefix(LinesOf(text)[1]))

\* C10: every content line of the output, that is every line but a restored
\* opener or closer line, starts with the normalized prefix of the first line
\* of the input.  Stated for the inputs wrapComment reflows, those that are
\* not a single line that fits.
C10_PrefixOnEveryLine ==
  (pc = "wrapComment" /\ ~threw /\ ~IsShortEnough(comment, maxLength))
    => \A i \in 1..Len(ContentLines(comment, output)) :
         StartsWithAt(ContentLines(comment, output)[i], 1,
                      FirstLinePrefix(comment))

\* the normalized prefix wrapComment puts in front of every wrapped line
NormalizedPrefixOf(text) == normalizeCommentPrefix(getCommentPrefix(text))

\* what stands before the content on an output line: the normalized prefix,
\* from its last line break on when it has one
LinePrefixOf(text) ==
  LinesOf(NormalizedPrefixOf(text))[Len(LinesOf(NormalizedPrefixOf(text)))]

\* the words of an output line that are neither its prefix nor its marker
WordsOfLine(text, line) ==
  Words(WithoutMarker(IF StartsWithAt(line, 1, LinePrefixOf(text))
                      THEN Drop(line, Len(LinePrefixOf(text)))
                      ELSE line))

\* C11: every content line of the output, measured with its prefix, marker
\* and hanging indent, is no longer than maxLength unless its content is a
\* single word; the first line of a documentation-tag item fits as well.
C11_WidthKept ==
  (pc = "wrapComment" /\ ~threw /\ ~IsShortEnough(comment, maxLength))
    => \A i \in 1..Len(ContentLines(comment, output)) :
         \/ Len(ContentLines(comment, output)[i]) <= maxLength
         \/ Len(WordsOfLine(comment, ContentLines(comment, output)[i])) <= 1

\* "@see a a a", a documentation tag with three words
TagItem == <<"@", "s", "e", "e", " ", "a", " ", "a", " ", "a">>

\* the tag item has been wrapped at width 7: the tag is 5 long, the first
\* line holds one word and the line hanging under it is filled exactly
C11_Witness ==
  /\ pc = "wrapComment"
  /\ comment = TagItem
  /\ maxLength = 7
  /\ OutputLines(output) =
       << <<"@", "s", "e", "e", " ", "a">>,
          <<" ", " ", " ", " ", "a", " ", "a">> >>

\* the chunks wrapComment wraps
ChunksOf(text) == splitIntoChunks(stripFormatting(text))

\* the text holds one chunk and it is a documentation-tag item
IsTagItem(text) ==
  /\ Len(ChunksOf(text)) = 1
  /\ listItemRegExp(ChunksOf(text)[1]) < 0
  /\ jsDocRegExp(ChunksOf(text)[1]) >= 0

\* the tag of a documentation-tag item, without the white space around it
TagOf(chunk) == trim(Take(chunk, jsDocRegExp(chunk)))

\* the line is made of the line prefix, n spaces and text that does not start
\* with white space
IndentedBy(text, line, n) ==
  /\ StartsWithAt(line, 1, LinePrefixOf(text) \o Repeat(" ", n))
  /\ Len(line) > Len(LinePrefixOf(text)) + n
  /\ line[Len(LinePrefixOf(text)) + n + 1] \notin WhiteSpace

\* C12: a documentation-tag item that does not fit is wrapped with its tag
\* kept as it is on the first line and every continuation line indented by
\* exactly 4 spaces after the comment prefix, whatever the length of the tag.
\* Stated for the calls that return.
C12_TagIndent ==
  (/\ pc = "wrapComment"
   /\ ~threw
   /\ IsTagItem(comment)
   /\ Len(ContentLines(comment, output)) > 1)
    => /\ StartsWithAt(trimStart(Drop(ContentLines(comment, output)[1],
                                      Len(LinePrefixOf(comment)))),
                       1, TagOf(ChunksOf(comment)[1]))
       /\ \A i \in 2..Len(ContentLines(comment, output)) :
            IndentedBy(comment, ContentLines(comment, output)[i], JSDOC_INDENT)

\* the text is a list: every chunk is a list item that stands on one line
IsList(text) ==
  /\ Len(ChunksOf(text)) > 0
  /\ \A c \in 1..Len(ChunksOf(text)) :
       listItemRegExp(ChunksOf(text)[c]) >= 0 /\ ~HasLineBreak(ChunksOf(text)[c])

\* the content lines of the output without the line prefix
ItemLines(text, out) ==
  [i \in 1..Len(ContentLines(text, out)) |->
     Drop(ContentLines(text, out)[i], Len(LinePrefixOf(text)))]

\* the lines are one item wrapped: its marker as it was on the first line,
\* the other lines indented by the length of the marker, and its words
ItemWrapped(item, ls) ==
  LET m == listItemRegExp(item)
  IN  /\ StartsWithAt(ls[1], 1, Take(item, m))
      /\ \A i \in 2..Len(ls) :
           /\ StartsWithAt(ls[i], 1, Repeat(" ", m))
           /\ Len(ls[i]) > m
           /\ ls[i][m + 1] \notin WhiteSpace
      /\ Words(Join(<<Drop(ls[1], m)>> \o Tail(ls), <<" ">>)) = Words(Drop(item, m))

\* the lines are the items one after the other: an item that fits in the
\* available length as it was, the others wrapped
RECURSIVE ItemsWrapped(_, _, _)
ItemsWrapped(items, ls, available) ==
  IF Len(items) = 0 THEN Len(ls) = 0
  ELSE IF Len(ls) = 0 THEN FALSE
  ELSE IF Len(items[1]) <= available
  THEN ls[1] = items[1] /\ ItemsWrapped(Tail(items), Tail(ls), available)
  ELSE \E n \in 1..Len(ls) :
         /\ ItemWrapped(items[1], SubSeq(ls, 1, n))
         /\ ItemsWrapped(Tail(items), SubSeq(ls, n + 1, Len(ls)), available)

\* C13: in a list each item is wrapped on its own: an item that fits is
\* emitted as it was, an item that overflows keeps its marker on the first
\* line and has every other line indented by the length of the marker, and
\* no word moves from one item to another.  Stated for the calls that return.
C13_ListItems ==
  (/\ pc = "wrapComment"
   /\ ~threw
   /\ ~IsShortEnough(comment, maxLength)
   /\ IsList(comment))
    => /\ \A i \in 1..Len(ContentLines(comment, output)) :
            StartsWithAt(ContentLines(comment, output)[i], 1, LinePrefixOf(comment))
       /\ ItemsWrapped(ChunksOf(comment), ItemLines(comment, output),
                       maxLength - Len(LinePrefixOf(comment)))

\* the word stands alone on the line: after the line prefix there is nothing
\* but the word, or the marker of an item as it was and the word
AloneOn(text, line, word) ==
  /\ StartsWithAt(line, 1, LinePrefixOf(text))
  /\ \/ trim(Drop(line, Len(LinePrefixOf(text)))) = word
     \/ \E c \in 1..Len(ChunksOf(text)) :
          /\ ItemPrefix(ChunksOf(text)[c]) # <<>>
          /\ Drop(line, Len(LinePrefixOf(text)))
               = ItemPrefix(ChunksOf(text)[c]) \o word

\* C14: a word that is longer than the available width is neither split nor
\* truncated: it stands whole and alone, after the prefix and the marker, on
\* a line of the output.  Stated for the calls that return.
C14_LongWordWhole ==
  (pc = "wrapComment" /\ ~threw /\ ~IsShortEnough(comment, maxLength))
    => \A k \in 1..Len(ContentWords(comment)) :
         Len(ContentWords(comment)[k])
             > getAvailableLength(NormalizedPrefixOf(comment), maxLength)
           => \E i \in 1..Len(ContentLines(comment, output)) :
                AloneOn(comment, ContentLines(comment, output)[i],
                        ContentWords(comment)[k])


\* the lines wrapComment wraps a text into, before they get their prefix
WrappedLines(text, width) ==
  ChunksLoop(ChunksOf(text), 1, <<>>,
             getAvailableLength(NormalizedPrefixOf(text), width),
             NewRegExps).lines

\* the lines of a text once the comment prefix and suffix are stripped
StrippedLines(text) == stripFormatting(text)

\* the text is already wrapped: it has lines to show and reflowing changes
\* nothing in them, the wrapped lines being the stripped lines of the input
AlreadyWrapped(text, width) ==
  /\ StrippedLines(text) # <<>>
  /\ WrappedLines(text, width) = StrippedLines(text)

\* no opener line and no closer line is restored for the text
NoDelimiters(text) == OpenerLine(text) = <<>> /\ CloserLine(text) = <<>>

\* C15 as claimed: when the input is already wrapped, reflowing changing
\* nothing in its visible lines, and it is not a block-style comment whose
\* delimiters are restored, wrapComment returns the original input unchanged.
C15_OriginalReturned ==
  (/\ pc = "wrapComment"
   /\ ~threw
   /\ AlreadyWrapped(comment, maxLength)
   /\ NoDelimiters(comment))
    => output = comment

\* every line of the text is the normalized prefix followed by one stripped
\* line, with no other character
NormallyPrefixed(text) ==
  /\ Len(LinesOf(text)) = Len(StrippedLines(text))
  /\ \A i \in 1..Len(LinesOf(text)) :
       LinesOf(text)[i] = NormalizedPrefixOf(text) \o StrippedLines(text)[i]

\* C15 as amended: when the input is already wrapped, every line of it being
\* the normalized prefix followed by a line of the wrapped content and nothing
\* else, and no delimiter is restored, wrapComment returns a text equal to
\* the input.
C15_WrappedIsKept ==
  (/\ pc = "wrapComment"
   /\ ~threw
   /\ AlreadyWrapped(comment, maxLength)
   /\ NoDelimiters(comment)
   /\ NormallyPrefixed(comment))
    => output = comment

\* the list "- a\n- a" has been reflowed at width 3: its two items fit and
\* the text comes back as it was
C15_Witness ==
  /\ pc = "wrapComment"
  /\ comment = <<"-", " ", "a", "\n", "-", " ", "a">>
  /\ maxLength = 3
  /\ ~threw
  /\ AlreadyWrapped(comment, maxLength)
  /\ NormallyPrefixed(comment)
  /\ output = comment


\* the white space a prefix begins with
LeadingWhiteSpace(prefix) == Take(prefix, RunLength(prefix, 1, WhiteSpace))

\* the text ends with the given line: it is that line, or a line break comes
\* before it
LastLineIs(text, line) == text = line \/ EndsWith(text, <<"\n">> \o line)

\* C16: when wrapComment restores a closer, the closer line is the closer
\* token preceded only by the leading white space of the normalized prefix;
\* it never holds the per-line comment marker.
C16_CloserLine ==
  (/\ pc = "wrapComment"
   /\ ~threw
   /\ ~IsShortEnough(comment, maxLength)
   /\ CloserLine(comment) # <<>>)
    => LastLineIs(output, LeadingWhiteSpace(NormalizedPrefixOf(comment))
                            \o getCommentSuffix(comment))


\* the lines the chunks of a text are wrapped into at a given available
\* width, each with the normalized prefix of the text and an indent in front
\* of it, joined as wrapComment joins them
Indented(text, indent, available) ==
  Join(PrefixLines(NormalizedPrefixOf(text) \o indent,
                   ChunksLoop(ChunksOf(text), 1, <<>>, available,
                              NewRegExps).lines),
       <<"\n">>)

\* the content lines of the output, joined again
Content(text, out) == Join(ContentLines(text, out), <<"\n">>)

\* the text begins, after its indentation, with the opener "/*" or "{/*"
OpensPlainBlock(text) == OpenerOf(text) \in {2, 3}

\* the text begins, after its indentation, with the opener "/**"
OpensDocBlock(text) == OpenerOf(text) = 1

\* C17 as claimed: for a comment opened by a bare "/*" or by "{/*" the content
\* of every output line is indented two more spaces than the normalized
\* prefix and is wrapped to maxLength less the prefix less those two spaces;
\* for a "/**" comment there is no extra indent.
C17_ExtraIndent ==
  (pc = "wrapComment" /\ ~threw /\ ~IsShortEnough(comment, maxLength))
    => /\ OpensPlainBlock(comment)
            => Content(comment, output)
                 = Indented(comment, <<" ", " ">>,
                            maxLength - Len(NormalizedPrefixOf(comment)) - 2)
       /\ OpensDocBlock(comment)
            => Content(comment, output)
                 = Indented(comment, <<>>,
                            maxLength - Len(NormalizedPrefixOf(comment)))

\* C17 as amended: there is no extra indent.  For a comment opened by "/*",
\* by "{/*" or by "/**" alike, the content of every output line follows the
\* normalized prefix directly and is wrapped to maxLength less the length of
\* the prefix.
C17_NoExtraIndent ==
  (/\ pc = "wrapComment"
   /\ ~threw
   /\ ~IsShortEnough(comment, maxLength)
   /\ (OpensPlainBlock(comment) \/ OpensDocBlock(comment)))
    => Content(comment, output)
         = Indented(comment, <<>>,
                    maxLength - Len(NormalizedPrefixOf(comment)))

\* "/* a a" followed by a line break has been reflowed at width 6: the prefix
\* " * " leaves three characters, which the two words fill exactly
C17_Witness ==
  /\ pc = "wrapComment"
  /\ comment = <<"/", "*", " ", "a", " ", "a", "\n">>
  /\ maxLength = 6
  /\ OutputLines(output) = << <<"/", "*">>, <<" ", "*", " ", "a", " ", "a">> >>


\* the lines of a text that are no paragraph breaks
RECURSIVE DropBreaks(_)
DropBreaks(ls) ==
  IF ls = <<>> THEN <<>>
  ELSE (IF isCommentBreak(ls[1]) THEN <<>> ELSE <<ls[1]>>)
         \o DropBreaks(Tail(ls))

\* the text without its break lines
WithoutBreaks(text) == Join(DropBreaks(splitIntoLines(text)), <<"\n">>)

\* the chunks of the lines from line i on, when every break line ends the
\* chunk before it: paragraph holds the stripped lines since the last break
RECURSIVE ChunksByParagraph(_, _, _)
ChunksByParagraph(ls, i, paragraph) ==
  IF i > Len(ls) THEN splitIntoChunks(paragraph)
  ELSE IF isCommentBreak(ls[i])
  THEN splitIntoChunks(paragraph) \o ChunksByParagraph(ls, i + 1, <<>>)
  ELSE ChunksByParagraph(ls, i + 1, paragraph \o stripFormatting(ls[i]))

\* a break line stands between two lines that hold words
BreakBetweenWords(text) ==
  LET ls == splitIntoLines(text)
  IN  \E i, j, k \in 1..Len(ls) :
        /\ i < j /\ j < k
        /\ isCommentBreak(ls[j])
        /\ stripFormatting(ls[i]) # <<>>
        /\ stripFormatting(ls[k]) # <<>>

\* C18 as claimed: chunks never span a paragraph break.  When the input holds
\* a break line, a line with only "//", "#" or "*", the words before it and
\* the words after it are never in one chunk.
C18_BreakEndsChunk ==
  (pc = "wrapComment" /\ BreakBetweenWords(comment))
    => ChunksOf(comment)
         = ChunksByParagraph(splitIntoLines(comment), 1, <<>>)

\* C18 as amended: a break line does not end a chunk.  It is dropped with the
\* empty lines, the chunks are those of the text without its break lines,
\* and only a line that starts with a list marker or a tag starts a chunk.
C18_BreakIsDropped ==
  (pc = "wrapComment" /\ BreakBetweenWords(comment))
    => /\ ChunksOf(comment) = ChunksOf(WithoutBreaks(comment))
       /\ \A i \in 2..Len(ChunksOf(comment)) :
            isListItemOrTag(ChunksOf(comment)[i])

\* "a", a line with only "//" and "a" have been reflowed at width 3: the two
\* words are in one chunk and on one output line
C18_Witness ==
  /\ pc = "wrapComment"
  /\ comment = <<"a", "\n", "/", "/", "\n", "a">>
  /\ maxLength = 3
  /\ ChunksOf(comment) = << <<"a", "\n", "a">> >>
  /\ output = <<"a", " ", "a">>


\* the line holds nothing, or nothing but the marker of the line prefix
MarkerOnly(text, line) ==
  trim(line) = <<>> \/ trim(line) = trim(LinePrefixOf(text))

\* C19: paragraph flattening.  Break lines and empty lines of the input never
\* appear in the output of wrapComment: the text on both sides of such a line
\* is reflowed as one target, and the output has no content line that is
\* empty or holds only a marker.  Stated for the inputs wrapComment reflows,
\* those that are not a single line that fits.
C19_Flattened ==
  (pc = "wrapComment" /\ ~threw /\ ~IsShortEnough(comment, maxLength))
    => /\ ChunksOf(comment) = ChunksOf(WithoutBreaks(comment))
       /\ \A i \in 1..Len(ContentLines(comment, output)) :
            ~MarkerOnly(comment, ContentLines(comment, output)[i])


\* the text holds nothing but one continuation marker, "*", "//" or "#", and
\* white space around it
OneMarker(text) ==
  \E k \in 1..Len(multilineInsidePrefixes) :
    \E before, after \in 0..Len(text) :
      /\ before + Len(multilineInsidePrefixes[k]) + after = Len(text)
      /\ \A i \in 1..before : text[i] \in WhiteSpace
      /\ StartsWithAt(text, before + 1, multilineInsidePrefixes[k])
      /\ \A i \in (Len(text) - after + 1)..Len(text) : text[i] \in WhiteSpace

\* the text holds nothing but white space
Blank(text) == \A i \in 1..Len(text) : text[i] \in WhiteSpace

\* C20 as claimed: isCommentBreak(line) is true if and only if the trimmed
\* line is exactly one continuation marker, "*", "//" or "#", or the trimmed
\* line is empty.
C20_BreakOrEmpty ==
  pc = "isCommentBreak" => (isBreak <=> (OneMarker(comment) \/ Blank(comment)))

\* C20 as amended: isCommentBreak(line) is true if and only if the trimmed
\* line is exactly one continuation marker, "*", "//" or "#"; it is false
\* for a line that is empty once trimmed.
C20_OneMarker ==
  pc = "isCommentBreak" => (isBreak <=> OneMarker(comment))

\* isCommentBreak has answered for a line with only the marker "//" and a
\* space after it
C20_Witness ==
  /\ pc = "isCommentBreak"
  /\ comment = <<"/", "/", " ">>
  /\ isBreak


\* the text is a comment prefix: white space alone, or white space, one
\* marker and at most one space, all of which prefixRegExp matches
IsPrefix(text) == Blank(text) \/ prefixRegExp(text) = Len(text)

\* the text ends with exactly one space that follows a character that is no
\* white space
EndsWithOneSpace(text) ==
  /\ Len(text) >= 2
  /\ text[Len(text)] = " "
  /\ text[Len(text) - 1] \notin WhiteSpace

\* C21: normalizeCommentPrefix returns a prefix that is empty or white space
\* alone unchanged; for every other prefix the result ends with exactly one
\* space after a marker character, or is white space alone; and normalizing
\* the result once more returns it unchanged.
C21_Normalized ==
  (pc = "normalizeCommentPrefix" /\ IsPrefix(comment))
    => /\ Blank(comment) => normalized = comment
       /\ ~Blank(comment) => (EndsWithOneSpace(normalized) \/ Blank(normalized))
       /\ normalizeCommentPrefix(normalized) = normalized

\* the indented prefix " /**" has been normalized: the result ends with the
\* marker and one space
C21_Witness ==
  /\ pc = "normalizeCommentPrefix"
  /\ comment = <<" ", "/", "*", "*">>
  /\ normalized = <<" ", " ", "*", " ">>


\* the text is a single-line marker prefix: white space, then "//" or "#",
\* then at most one space
LineMarkerPrefix(text) ==
  /\ prefixRegExp(text) = Len(text)
  /\ ChoiceFrom(<< <<"/", "/">>, <<"#">> >>, text,
                RunLength(text, 1, WhiteSpace) + 1, 1) # 0

\* C22 as claimed: normalizeCommentPrefix returns a single-line marker prefix,
\* leading white space followed by "//" or "#" with or without a space after
\* it, unchanged.
C22_LineMarkerUnchanged ==
  (pc = "normalizeCommentPrefix" /\ LineMarkerPrefix(comment))
    => normalized = comment

\* C22 as amended: normalizeCommentPrefix returns a single-line marker prefix
\* that ends with a space unchanged, and appends one space to a single-line
\* marker prefix that ends with its marker.
C22_LineMarkerSpaced ==
  (pc = "normalizeCommentPrefix" /\ LineMarkerPrefix(comment))
    => normalized = (IF comment[Len(comment)] = " " THEN comment
                     ELSE comment \o <<" ">>)

\* the indented prefix " #" has been normalized: a space follows the marker
C22_Witness ==
  /\ pc = "normalizeCommentPrefix"
  /\ comment = <<" ", "#">>
  /\ normalized = <<" ", "#", " ">>


\* the text is a block-opener prefix: white space, an opener of
\* multilinePrefixes and at most one space
OpenerPrefix(text) ==
  /\ prefixRegExp(text) = Len(text)
  /\ ChoiceFrom(multilinePrefixes, text,
                RunLength(text, 1, WhiteSpace) + 1, 1) # 0

\* what each opener of multilinePrefixes becomes: " * " for "/**" and "/*",
\* "  * " for "{/*", nothing for "<!--"
ContinuationOf ==
  << <<" ", "*", " ">>, <<" ", "*", " ">>, <<" ", " ", "*", " ">>, <<>> >>

\* C23: normalizeCommentPrefix keeps the leading white space of a block-opener
\* prefix and maps the opener by a fixed table: "/*" and "/**" become one
\* space, "*" and one space; "{/*" becomes two spaces, "*" and one space;
\* "<!--" is removed, which leaves the leading white space alone.
C23_OpenerTable ==
  (pc = "normalizeCommentPrefix" /\ OpenerPrefix(comment))
    => normalized
         = LeadingWhiteSpace(comment)
             \o ContinuationOf[ChoiceFrom(multilinePrefixes, comment,
                                          RunLength(comment, 1, WhiteSpace) + 1,
                                          1)]

\* the indented prefix " {/* " has been normalized: the marker stands two
\* columns deeper than the opener
C23_Witness ==
  /\ pc = "normalizeCommentPrefix"
  /\ comment = <<" ", "{", "/", "*", " ">>
  /\ normalized = <<" ", " ", " ", "*", " ">>


\* the line begins, after optional white space, with a list marker "-" or
\* "*", a numbered marker, an "@word" tag or an uppercase "WORD:" tag
BeginsWithMarker(line) ==
  LET k == RunLength(line, 1, WhiteSpace)
      d == RunLength(line, k + 1, Digit)
      u == RunLength(line, k + 1, UpperCase)
  IN  /\ k < Len(line)
      /\ \/ line[k + 1] \in {"-", "*"}
         \/ d >= 1 /\ k + d < Len(line) /\ line[k + d + 1] = "."
         \/ line[k + 1] = "@" /\ k + 1 < Len(line) /\ line[k + 2] \in WordChar
         \/ u >= 1 /\ k + u < Len(line) /\ line[k + u + 1] = ":"

\* the lines from line i on put into chunks: a line that begins with a
\* marker starts a chunk unless no line came before it, and every other line
\* goes to the end of the last chunk
RECURSIVE Grouped(_, _, _)
Grouped(ls, i, groups) ==
  IF i > Len(ls) THEN groups
  ELSE IF groups = <<>> \/ BeginsWithMarker(ls[i])
  THEN Grouped(ls, i + 1, Append(groups, ls[i]))
  ELSE Grouped(ls, i + 1,
               [groups EXCEPT ![Len(groups)] = @ \o <<"\n">> \o ls[i]])

\* C24: splitIntoChunks starts a new chunk at a line exactly when the line
\* begins, after optional white space, with a list marker, a numbered marker,
\* an "@word" tag or an uppercase "WORD:" tag and the current chunk is not
\* empty; every other line is appended to the current chunk, so a change of
\* bullet from "-" to "*" starts a new chunk as well.
C24_ChunkStarts ==
  pc = "splitIntoChunks"
    => chunked = Grouped(splitIntoLines(comment), 1, <<>>)

\* the lines "- a" and "* a" have been split: the second bullet starts a
\* chunk of its own
C24_Witness ==
  /\ pc = "splitIntoChunks"
  /\ comment = <<"-", " ", "a", "\n", "*", " ", "a">>
  /\ chunked = << <<"-", " ", "a">>, <<"*", " ", "a">> >>


\* the words of the lines an item was wrapped into, once the marker is
\* removed from the first line and the indent from the other lines
ItemContent(ls, marker) ==
  Words(Join(<<Drop(ls[1], Len(marker))>> \o Tail(ls), <<" ">>))

\* C25: wrapListItem round-trips the content of the item.  For every chunk
\* that starts with a list marker or a documentation tag and has words after
\* it, the first returned line is the marker verbatim followed by text, and
\* the returned lines without the marker and the hanging indent hold exactly
\* the words of the chunk after its marker, in order, words that begin with
\* "@" included.  Stated for the calls that return.
C25_RoundTrip ==
  (/\ pc = "wrapListItem"
   /\ ~listItem.threw
   /\ ItemPrefix(comment) # <<>>
   /\ Words(Drop(comment, Len(ItemPrefix(comment)))) # <<>>)
    => /\ Len(listItem.lines) >= 1
       /\ StartsWithAt(listItem.lines[1], 1, ItemPrefix(comment))
       /\ ItemContent(listItem.lines, ItemPrefix(comment))
            = Words(Drop(comment, Len(ItemPrefix(comment))))


\* what follows the comment prefix of a text
AfterPrefix(text) == Drop(text, Len(getCommentPrefix(text)))

\* the text is one line: a comment prefix with a per-line marker, then white
\* space, a list marker and words, as in "//   - text", and no closing marker
NestedItem(text) ==
  /\ ~HasLineBreak(text)
  /\ ~isCommentEnd(text)
  /\ OpenerLine(text) = <<>>
  /\ trim(getCommentPrefix(text)) # <<>>
  /\ AfterPrefix(text) # <<>>
  /\ AfterPrefix(text)[1] \in {" ", "\t"}
  /\ listItemRegExp(AfterPrefix(text)) >= 0
  /\ Words(Drop(AfterPrefix(text), listItemRegExp(AfterPrefix(text)))) # <<>>

\* C26: a nested list item inside a comment keeps its indentation.
\* stripFormatting removes the comment marker and at most one space after it
\* and trims the end of the line only, so an item written as "//   - text" is
\* wrapped with its marker at the same column, and its continuation lines are
\* indented by the leading white space of the item plus the width of its
\* marker.
C26_NestedKept ==
  (pc = "wrapComment" /\ ~threw /\ NestedItem(comment))
    => /\ stripFormatting(comment) = <<trimEnd(AfterPrefix(comment))>>
       /\ Len(ContentLines(comment, output)) >= 1
       /\ StartsWithAt(ContentLines(comment, output)[1], 1,
                       NormalizedPrefixOf(comment)
                         \o ItemPrefix(AfterPrefix(comment)))
       /\ \A i \in 2..Len(ContentLines(comment, output)) :
            IndentedBy(comment, ContentLines(comment, output)[i],
                       Len(ItemPrefix(AfterPrefix(comment))))

\* "//   - a a" has been wrapped at width 8: the marker stays two columns
\* in, and the second word hangs under the first
C26_Witness ==
  /\ pc = "wrapComment"
  /\ comment = <<"/", "/", " ", " ", " ", "-", " ", "a", " ", "a">>
  /\ maxLength = 8
  /\ OutputLines(output) =
       << <<"/", "/", " ", " ", " ", "-", " ", "a">>,
          <<"/", "/", " ", " ", " ", " ", " ", "a">> >>


\* the chunk begins with an uppercase free-form tag such as "TODO:"
FreeFormTag(chunk) ==
  tagRegExp(chunk) >= 0 /\ listItemRegExp(chunk) < 0 /\ jsDocRegExp(chunk) < 0

\* C27: a line that begins with an uppercase free-form tag starts a chunk of
\* its own, but the chunk is wrapped without a hanging indent: wrapListItem
\* returns the lines of a plain text block at the full width, so that the
\* continuation lines start directly after the comment prefix.
C27_NoHangingIndent ==
  (pc = "wrapListItem" /\ FreeFormTag(comment))
    => /\ isListItemOrTag(comment)
       /\ ~listItem.threw
       /\ listItem.lines = wrapTextBlock(comment, maxLength)
       /\ \A i \in 1..Len(listItem.lines) :
            listItem.lines[i][1] \notin WhiteSpace

\* "TO: a a" has been wrapped at width 6: the second word is on a line of
\* its own, without an indent
C27_Witness ==
  /\ pc = "wrapListItem"
  /\ comment = <<"T", "O", ":", " ", "a", " ", "a">>
  /\ maxLength = 6
  /\ listItem.lines = << <<"T", "O", ":", " ", "a">>, <<"a">> >>


\* the closing token a text ends with, without the white space after it
ClosingToken(text) == trimEnd(getCommentSuffix(text))

\* C28: closer detection and stripping agree.  Whenever the input ends with a
\* closing token, "*/", "*/}" or "-->", followed by optional white space, as
\* isCommentEnd and stripFormatting take it, and the input is reflowed, the
\* token removed from the content is emitted again as the closer line of the
\* output: a closing token is never lost.
C28_CloserKept ==
  (/\ pc = "wrapComment"
   /\ ~threw
   /\ ~IsShortEnough(comment, maxLength)
   /\ isCommentEnd(comment))
    => /\ CloserLine(comment) # <<>>
       /\ EndsWith(output, ClosingToken(comment))


\* C29: wrapTextBlock fills the lines greedily.  For every two consecutive
\* returned lines A and B, the length of A plus one plus the length of the
\* first word of B is greater than maxLength: a line ends only where the next
\* word would not fit.
C29_Greedy ==
  pc = "wrapTextBlock"
    => \A i \in 1..(Len(lines) - 1) :
         Len(lines[i]) + 1 + Len(SplitOnSpaces(lines[i + 1])[1]) > maxLength

\* "a a a" has been wrapped at width 3: two words fill the first line and
\* the third would not fit on it
C29_Witness ==
  /\ pc = "wrapTextBlock"
  /\ comment = <<"a", " ", "a", " ", "a">>
  /\ maxLength = 3
  /\ lines = << <<"a", " ", "a">>, <<"a">> >>


\* the lines of the chunks, put end to end
RECURSIVE LinesOfChunks(_)
LinesOfChunks(cs) ==
  IF cs = <<>> THEN <<>> ELSE LinesOf(cs[1]) \o LinesOfChunks(Tail(cs))

\* C30: splitIntoChunks partitions its input.  The chunks, each split on its
\* line breaks, give back the input lines in the same order, none lost and
\* none twice, so that every chunk holds at least one line; every chunk after
\* the first begins with a marker line; and within a chunk no line but the
\* first begins with a list marker or a tag.
C30_Partition ==
  pc = "splitIntoChunks"
    => /\ LinesOfChunks(chunked) = splitIntoLines(comment)
       /\ \A c \in 2..Len(chunked) : isListItemOrTag(LinesOf(chunked[c])[1])
       /\ \A c \in 1..Len(chunked) :
            \A j \in 2..Len(LinesOf(chunked[c])) :
              ~isListItemOrTag(LinesOf(chunked[c])[j])

\* the lines " a" and "- a" have been split into a text chunk and an item
C30_Witness ==
  /\ pc = "splitIntoChunks"
  /\ comment = <<" ", "a", "\n", "-", " ", "a">>
  /\ chunked = << <<" ", "a">>, <<"-", " ", "a">> >>

=============================================================================
